---- MODULE Spec2Model ----
(***************************************************************************)
(* Quiz session state machine (services.quiz_manager.QuizManager) and its  *)
(* countdown Timer (utils.timer.Timer), with the foreground flow and the   *)
(* Timer's countdown threads interleaved statement by statement.           *)
(*                                                                         *)
(* Executors: 0 is the foreground flow, 1..MaxThreads are countdown        *)
(* threads.  pc[e] is the executor's position, loc[e] its local variables. *)
(* Time is a discrete clock of TicksPerSec ticks per second.               *)
(***************************************************************************)
EXTENDS Integers, Sequences, FiniteSets, TLC

\* ---------------------------------------------------------------- bounds
MaxTime == 2
MaxTimers == 1
MaxThreads == 2
MaxIndex == 3
MaxSubmits == 2
MaxObservers == 3
MaxRestartTimers == 2
MaxLen == 2
MaxOptions == 2
\* threads that construct the singletons, and values one instance is given to keep
MaxCallers == 2
MaxStored == 2
TicksPerSec == 2

\* ------------------------------------------------------ program constants
DefaultDuration == 300
JoinTimeout == 1
SleepSeconds == 1

NoTime == -1000
FG == 0
Threads == 1..MaxThreads
Execs == 0..MaxThreads
TimerIds == 1..MaxTimers
\* the Timers of a session that is started more than once
RestartTimerIds == 1..MaxRestartTimers

\* The question records a session is loaded with: kind, correct answer, points.
\* raises: the question's check_answer raises an exception
Q1 == [question_type |-> "mcq", correct_answer |-> 1, points |-> 10, raises |-> FALSE]
Q2 == [question_type |-> "true_false", correct_answer |-> 2, points |-> 5,
       raises |-> FALSE]
\* a question whose check_answer has been replaced by one that raises
Q3 == [question_type |-> "mcq", correct_answer |-> 1, points |-> 10, raises |-> TRUE]
QuestionLists == {<< >>, <<Q1>>, <<Q1, Q2>>, <<Q1, Q3>>}
Candidates == {1, 2}
\* the default of start_quiz's duration argument: None
NoDuration == -1000
\* duration argument of start_quiz: left out, or a number of seconds
Durations == {NoDuration, 0, 1}
\* `if duration:` on such an argument: None and 0 are falsy
Truthy(d) == d # NoDuration /\ d # 0
\* duration of a Timer constructed on its own
TimerDurations == {-1, 0, 1}
\* the new_duration reset is given, when it is given one
ResetDuration == 1
Users == {"none", "u"}
\* duration arguments of the starts of a session that is started more than once
RestartDurations == {1, 2}

VARIABLES
  now,                     \* time.time(), in ticks
  questions,               \* QuizManager.questions
  current_question_index,  \* QuizManager.current_question_index
  quiz_active,             \* QuizManager.quiz_active
  quiz_duration,           \* QuizManager.quiz_duration
  current_user,            \* QuizManager.current_user ("none" = None)
  user,                    \* the User object: current_score, total_score, quizzes_taken
  timer,                   \* QuizManager.timer (0 = None, else a Timer id)
  timers,                  \* the Timer objects
  nTimers,                 \* Timer objects constructed so far
  nThreads,                \* countdown threads created so far
  pc,                      \* position of every executor
  loc,                     \* local variables of every executor
  res,                     \* what the last foreground call gave its caller
  prev,                    \* what the foreground call before it gave
  hist,                    \* history: what has happened in the current attempt
  subj,                    \* a Subject used on its own: _observers, and its notify loop
  mgr,                     \* the lock-guarded manager of quiz.quiz_manager and its caller
  qn,                      \* a Question of models.question and the last call made on it
  sgl                      \* the singleton classes and the threads constructing them

vars == <<now, questions, current_question_index, quiz_active, quiz_duration,
          current_user, user, timer, timers, nTimers, nThreads, pc, loc, res, prev, hist,
          subj, mgr, qn, sgl>>

sessVars == <<questions, current_question_index, quiz_active, quiz_duration,
              current_user, user, timer>>

Max(a, b) == IF a >= b THEN a ELSE b
Min(a, b) == IF a <= b THEN a ELSE b

\* ------------------------------------------------------------ Timer object
\* Timer.__init__
NewTimer(d, sessionAttached) ==
  [exists |-> TRUE, duration |-> d, remaining_time |-> d,
   start_time |-> NoTime, end_time |-> NoTime,
   is_running |-> FALSE, is_expired |-> FALSE,
   stop_event |-> FALSE, thread |-> 0,
   attached |-> sessionAttached,
   stopReturned |-> FALSE]

NoTimer == [NewTimer(0, FALSE) EXCEPT !.exists = FALSE]

\* int(x) of a time difference of n ticks, in seconds: truncation toward zero
TruncSeconds(n) ==
  IF n >= 0 THEN n \div TicksPerSec ELSE 0 - ((0 - n) \div TicksPerSec)

\* get_remaining_time without max(0, ...)
GetRemainingTimeNoClamp(tm, t) ==
  IF ~tm.is_running \/ tm.is_expired THEN <<0, tm>>
  ELSE IF tm.end_time = NoTime THEN <<0, tm>>
  ELSE LET remaining == TruncSeconds(tm.end_time - t)
       IN  <<remaining,
             IF remaining = 0
               THEN [tm EXCEPT !.remaining_time = remaining,
                               !.is_expired = TRUE, !.is_running = FALSE]
               ELSE [tm EXCEPT !.remaining_time = remaining]>>

\* get_remaining_time that does not record the expiry it sees
GetRemainingTimeNoRecord(tm, t) ==
  IF ~tm.is_running \/ tm.is_expired THEN <<0, tm>>
  ELSE IF tm.end_time = NoTime THEN <<0, tm>>
  ELSE LET remaining == Max(0, TruncSeconds(tm.end_time - t))
       IN  <<remaining, [tm EXCEPT !.remaining_time = remaining]>>

\* Timer.get_remaining_time at clock t: <<result, timer afterwards>>
GetRemainingTime(tm, t) ==
  IF ~tm.is_running \/ tm.is_expired THEN <<0, tm>>
  ELSE IF tm.end_time = NoTime THEN <<0, tm>>
  ELSE LET remaining == Max(0, TruncSeconds(tm.end_time - t))
       IN  <<remaining,
             IF remaining = 0
               THEN [tm EXCEPT !.remaining_time = remaining,
                               !.is_expired = TRUE, !.is_running = FALSE]
               ELSE [tm EXCEPT !.remaining_time = remaining]>>

\* is_time_expired without the sticky is_expired flag: it only asks a running Timer
IsTimeExpiredRunningOnly(tm, t) ==
  IF ~tm.is_running THEN <<FALSE, tm>>
  ELSE LET r == GetRemainingTime(tm, t)
       IN  IF r[1] = 0
             THEN <<TRUE, [r[2] EXCEPT !.is_expired = TRUE, !.is_running = FALSE]>>
             ELSE <<FALSE, r[2]>>

\* Timer.is_time_expired (and its alias is_time_up) at clock t
IsTimeExpired(tm, t) ==
  IF tm.is_expired THEN <<TRUE, tm>>
  ELSE IF ~tm.is_running THEN <<FALSE, tm>>
  ELSE LET r == GetRemainingTime(tm, t)
       IN  IF r[1] = 0
             THEN <<TRUE, [r[2] EXCEPT !.is_expired = TRUE, !.is_running = FALSE]>>
             ELSE <<FALSE, r[2]>>

\* Timer.get_elapsed_time at clock t
GetElapsedTime(tm, t) ==
  IF tm.start_time = NoTime THEN 0 ELSE TruncSeconds(t - tm.start_time)

\* --------------------------------------------- models.question.Question
\* Strings are sequences of characters; an answer is a string or a boolean.
Chars == {"a", "A", " "}
Strs == UNION {[1..n -> Chars] : n \in 0..MaxLen}
Str(s) == [isStr |-> TRUE, s |-> s, b |-> FALSE]
Bool(b) == [isStr |-> FALSE, s |-> << >>, b |-> b]
Answers == {Str(s) : s \in Strs} \cup {Bool(b) : b \in BOOLEAN}

\* str.lower()
LowerChar(c) == IF c = "A" THEN "a" ELSE c
Lower(s) == [i \in 1..Len(s) |-> LowerChar(s[i])]

\* str.strip()
RECURSIVE LStrip(_)
LStrip(s) == IF s # << >> /\ s[1] = " " THEN LStrip(Tail(s)) ELSE s
RECURSIVE RStrip(_)
RStrip(s) ==
  IF s # << >> /\ s[Len(s)] = " " THEN RStrip(SubSeq(s, 1, Len(s) - 1)) ELSE s
Strip(s) == RStrip(LStrip(s))

\* x in list
InList(x, list) == \E i \in 1..Len(list) : list[i] = x

\* check_answer that normalises the candidate only
CheckAnswerCandidateOnly(q, a) ==
  IF q.question_type = "short_answer" /\ a.isStr /\ q.correct_answer.isStr
    THEN Str(Lower(Strip(a.s))) = q.correct_answer
    ELSE a = q.correct_answer

\* check_answer by plain equality for every kind
CheckAnswerExact(q, a) == a = q.correct_answer

\* Question.check_answer: equality, and for short_answer with two strings the
\* comparison of user_answer.strip().lower() with correct_answer.strip().lower()
CheckAnswer(q, a) ==
  IF q.question_type = "short_answer"
    THEN IF a.isStr /\ q.correct_answer.isStr
           THEN Lower(Strip(a.s)) = Lower(Strip(q.correct_answer.s))
           ELSE a = q.correct_answer
    ELSE a = q.correct_answer

\* Question.get_correct_answer
GetCorrectAnswer(q) == q.correct_answer

\* Question._validate_question: "ok", or the rule whose ValueError it raises
ValidateQuestion(q) ==
  IF Strip(q.text) = << >> THEN "text"
  ELSE IF q.points < 0 THEN "points"
  ELSE IF q.question_type = "mcq"
    THEN IF q.options = << >> THEN "no options"
         ELSE IF Len(q.options) < 2 THEN "two options"
         ELSE IF ~InList(q.correct_answer, q.options) THEN "not an option"
         ELSE "ok"
  ELSE IF q.question_type = "true_false"
    THEN IF q.correct_answer.isStr THEN "not a boolean"
         ELSE IF q.options # << >> THEN "options"
         ELSE "ok"
  ELSE IF q.question_type = "short_answer"
    THEN IF ~q.correct_answer.isStr THEN "not a string"
         ELSE IF q.options # << >> THEN "options"
         ELSE "ok"
  ELSE "type"

\* the arguments Question(...) is given
Texts == {<< >>, <<" ">>, <<"a">>}
QuestionTypes == {"mcq", "true_false", "short_answer", "essay"}
QuestionPoints == {-1, 0, 1}
OptionStrs == {Str(<<"a">>), Str(<<"A">>)}
OptionLists == UNION {[1..n -> OptionStrs] : n \in 0..MaxOptions}


\* --------------------------------------------------------- Subject object
Observers == 1..MaxObservers
Payloads == {"tick", "done"}

\* Subject.__init__: no observers; guarded tells which notify the class has
\* (patterns.observer wraps its loop in try/except, quiz.observer does not)
SubjInit ==
  [observers |-> << >>,
   guarded |-> TRUE,
   raising |-> {},        \* the observers whose update raises
   mode |-> "idle",       \* "notify" while notify's loop is running
   idx |-> 0,             \* the loop's position in _observers
   payload |-> "none",    \* the data notify was given
   snapshot |-> << >>,    \* _observers when the last call began
   removed |-> {},        \* the observers detached while the last notify was running
   delivered |-> << >>,   \* <<observer, payload>> of every update call of the last notify
   raised |-> FALSE,      \* an update call of the last notify raised
   propagated |-> FALSE,  \* the last notify raised to its caller
   op |-> "none",         \* the last call
   arg |-> 0]             \* the observer the last attach or detach was given

\* ------------------------------------ quiz.quiz_manager.QuizManager object
\* what the last call of the lock-guarded manager gave its caller
MgrResInit ==
  [op |-> "none", kind |-> "none", correct |-> FALSE, points |-> 0, score |-> 0,
   value |-> 0]

\* QuizManager.__init__ of quiz.quiz_manager, and a caller that is in no call
MgrInit ==
  [questions |-> << >>, current_question_index |-> 0, current_user |-> "none",
   quiz_active |-> FALSE, quiz_duration |-> DefaultDuration, start_time |-> NoTime,
   current_score |-> 0,
   lock |-> FALSE,        \* self._lock is held
   pc |-> "idle",         \* the caller's position
   top |-> "none",        \* the method the caller called
   want |-> "none",       \* the method whose `with self._lock` is being entered
   stack |-> << >>,       \* where the methods that called this one carry on
   arg |-> 0, qs |-> << >>,   \* the call's arguments
   ret |-> MgrResInit,    \* what the method called last returned
   local |-> MgrResInit,  \* submit_answer's `result`
   res |-> MgrResInit]    \* what the caller was given

\* the classes of the repository that are singletons
SingletonClasses == {"ScoreManager", "QuizManager"}
\* the threads that construct them
Callers == 1..MaxCallers

\* no instance of either class yet, and no caller inside a constructor
SglInit ==
  [instance |-> [c \in SingletonClasses |-> FALSE],   \* cls._instance is not None
   created |-> [c \in SingletonClasses |-> 0],        \* objects object.__new__ made
   lock |-> [c \in SingletonClasses |-> 0],           \* holder of cls._lock (0 = free)
   initialized |-> [c \in SingletonClasses |-> FALSE], \* hasattr(self, '_initialized')
   stored |-> [c \in SingletonClasses |-> 0],  \* _scores[u] / len(questions) of the instance
   cls |-> [t \in Callers |-> "none"],         \* the class a caller is constructing or holds
   pc |-> [t \in Callers |-> "idle"]]

\* no Question constructed yet
QnInit ==
  [state |-> "none",      \* "built": __init__ returned; "raised": it raised
   text |-> << >>, question_type |-> "none", correct_answer |-> Bool(FALSE),
   points |-> 0, options |-> << >>,
   op |-> "none",         \* the last call made on the Question
   answer |-> Bool(FALSE), \* its argument
   result |-> FALSE]      \* what it returned

LocInit ==
  [timer |-> 0,        \* the Timer a countdown thread belongs to
   remaining |-> 0,    \* _countdown's local `remaining`
   wakeAt |-> 0,       \* when time.sleep(1) is over
   tgt |-> 0,          \* the Timer a stop() call is acting on
   joinFrom |-> 0,     \* when join(timeout) began
   sret |-> "none",    \* where to continue after Timer.stop
   ret |-> "none",     \* where to continue after end_quiz
   nret |-> "none",    \* where to continue after next_question
   answer |-> 0,
   is_correct |-> FALSE,
   points_earned |-> 0,
   score |-> 0,        \* result['current_score'] as computed before next_question
   answered |-> 0, total |-> 0, final |-> 0,   \* the summary end_quiz computed
   completed |-> FALSE, \* this call ran end_quiz's completion side effects
   active0 |-> FALSE, expired0 |-> FALSE, score0 |-> 0, index0 |-> 0,
   nexp |-> 0,         \* payloads with time_expired = true this thread published
   sawZero |-> FALSE,  \* _countdown has seen remaining == 0
   term |-> FALSE,     \* this thread published its terminal expiration payload
   late |-> FALSE,     \* this thread published a payload after the terminal one
   notes |-> << >>,    \* the session notifications this call has published, in order
   qnum |-> 0,         \* question_number of the question_change this call published
   given |-> NoDuration,  \* the duration argument of this start_quiz call
   configured0 |-> 0,  \* quiz_duration when this start_quiz call began
   timers0 |-> 0,      \* Timer objects constructed when this start_quiz call began
   duration0 |-> 0]    \* the Timer's duration when this reset call began

ResInit ==
  [op |-> "none", kind |-> "none", correct |-> FALSE, points |-> 0, score |-> 0,
   active |-> FALSE, answered |-> 0, total |-> 0, final |-> 0,
   completed |-> FALSE,  \* the call ran end_quiz's completion side effects
   active0 |-> FALSE,    \* quiz_active when the call began
   expired0 |-> FALSE,   \* the session Timer's is_expired when the call began
   score0 |-> 0, index0 |-> 0,  \* score and index when the call began
   value |-> 0, flag |-> FALSE,     \* what a Timer query returned
   running0 |-> FALSE,   \* the Timer's is_running when the call began
   overdue0 |-> FALSE,   \* the Timer's deadline had passed when the call began
   fresh0 |-> FALSE,     \* the call was the first one after start()
   start0 |-> NoTime, end_time0 |-> NoTime,  \* the Timer's start_time and end_time then
   threads0 |-> 0,       \* countdown threads created when the call began
   timers0 |-> 0,        \* Timer objects constructed when the call began
   notes0 |-> 0,         \* quiz_started notifications published when the call began
   questions0 |-> << >>, \* the questions loaded when the call began
   published |-> FALSE,  \* the call published a questions_loaded notification
   notes |-> << >>,      \* the session notifications the call published, in order
   qnum |-> 0,           \* question_number of the question_change it published
   given |-> NoDuration, \* the duration argument start_quiz was called with
   configured0 |-> 0,    \* quiz_duration when start_quiz began
   duration0 |-> 0]      \* the Timer's duration when reset began

HistInit ==
  [started |-> FALSE,   \* start_quiz has succeeded at least once
   accepted |-> 0,      \* points of the answers check_answer accepted, this attempt
   successes |-> 0,     \* submit_answer calls that scored an answer, this attempt
   completions |-> 0,   \* User.complete_quiz calls, this attempt
   notified |-> 0,      \* quiz_complete notifications, this attempt
   reloaded |-> FALSE,  \* load_questions or next_question was called directly
   pubAfterStop |-> FALSE,  \* a Timer published after its stop() had returned
   startedNotes |-> 0,  \* quiz_started notifications published
   lastRem |-> NoTime,  \* the last get_remaining_time a running Timer computed, this run
   increased |-> FALSE, \* such a result was larger than the one before it
   reverted |-> FALSE,  \* is_expired went from True to False outside reset()
   fresh |-> FALSE,     \* start() took effect and no call was made since
   phase |-> "none"]    \* "resumed": resume() took effect, no call was made since

Init ==
  /\ now = 0
  /\ questions = << >>
  /\ current_question_index = 0
  /\ quiz_active = FALSE
  /\ quiz_duration = DefaultDuration
  /\ current_user = "none"
  /\ user = [current_score |-> 0, total_score |-> 0, quizzes_taken |-> 0]
  /\ timer = 0
  /\ timers = [t \in TimerIds |-> NoTimer]
  /\ nTimers = 0
  /\ nThreads = 0
  /\ pc = [e \in Execs |-> IF e = FG THEN "idle" ELSE "none"]
  /\ loc = [e \in Execs |-> LocInit]
  /\ res = ResInit
  /\ prev = ResInit
  /\ hist = HistInit
  /\ subj = SubjInit
  /\ mgr = MgrInit
  /\ qn = QnInit
  /\ sgl = SglInit

\* ----------------------------------------------------------- small helpers
SetLoc(e, l) == loc' = [loc EXCEPT ![e] = l]
Goto(e, label) == pc' = [pc EXCEPT ![e] = label]

\* A countdown thread publishes one payload (Subject.notify) on its Timer.
Publish(l, expired, terminal) ==
  [l EXCEPT !.nexp = IF expired THEN @ + 1 ELSE @,
            !.late = @ \/ l.term,
            !.term = @ \/ terminal]

\* the history notes a payload published on a Timer whose stop() has returned
NotePublish(t) ==
  IF timers[t].stopReturned THEN [hist EXCEPT !.pubAfterStop = TRUE] ELSE hist

\* what end_quiz reports: answered_questions, total_questions, final_score
Summary(l) ==
  [l EXCEPT !.total = Len(questions),
            !.answered = Min(current_question_index, Len(questions)),
            !.final = IF current_user # "none" THEN user.current_score ELSE 0]

\* the state a foreground call finds when it begins
Entry(l) ==
  [l EXCEPT !.active0 = quiz_active,
            !.expired0 = IF timer # 0 THEN timers[timer].is_expired ELSE FALSE,
            !.score0 = user.current_score,
            !.index0 = current_question_index]

\* the record a foreground call leaves for its caller
Result(op, kind, l) ==
  IF op \in {"submit_answer", "get_quiz_progress"}
    THEN [ResInit EXCEPT !.op = op, !.kind = kind, !.completed = l.completed,
                         !.active0 = l.active0, !.expired0 = l.expired0,
                         !.score0 = l.score0, !.index0 = l.index0]
    ELSE [ResInit EXCEPT !.op = op, !.kind = kind, !.completed = l.completed]

\* the last result, kept for the next call only if it was an end_quiz summary
PrevOf(r) == IF r.op = "end_quiz" THEN r ELSE ResInit

\* the foreground flow enters a call that takes more than one step
Enter(label, l) ==
  /\ pc' = [pc EXCEPT ![FG] = label]
  /\ loc' = [loc EXCEPT ![FG] = l]
  /\ res' = ResInit
  /\ prev' = PrevOf(res)

\* the foreground call returns r to its caller
Return(r) ==
  /\ res' = r
  /\ prev' = IF r.op = "end_quiz" THEN prev ELSE ResInit
  /\ pc' = [pc EXCEPT ![FG] = "idle"]
  /\ loc' = [loc EXCEPT ![FG] = LocInit]

\* positions at which the foreground call only has its return left
FgReturns == {"sa_expired", "sa_notify", "ret_nq", "ret_eq", "ret_stop"}

FgResult(label, l) ==
  CASE label = "sa_expired" ->
         [Result("submit_answer", "expired", l) EXCEPT !.notes = l.notes]
    [] label = "sa_notify" ->
         [Result("submit_answer", "scored", l) EXCEPT
            !.correct = l.is_correct, !.points = l.points_earned, !.score = l.score,
            !.notes = Append(l.notes, "answer_submitted"), !.qnum = l.qnum]
    [] label = "ret_nq" -> Result("next_question", "ok", l)
    [] label = "ret_stop" -> Result("stop", "ok", l)
    [] label = "ret_eq" ->
         [Result("end_quiz", "summary", l) EXCEPT
            !.answered = l.answered, !.total = l.total, !.final = l.final]

\* what a finished countdown thread leaves behind
Finished(l) ==
  [LocInit EXCEPT !.timer = l.timer, !.nexp = l.nexp, !.sawZero = l.sawZero,
                  !.term = l.term, !.late = l.late]

\* executor e carries on at `label` with locals l
Continue(e, label, l) ==
  IF e = FG /\ label \in FgReturns
    THEN Return(FgResult(label, l))
    ELSE /\ Goto(e, label)
         /\ SetLoc(e, IF label = "t_done" THEN Finished(l) ELSE l)
         /\ UNCHANGED <<res, prev>>

\* ------------------------------------------------------------ time passes
\* The clock stops at MaxTime, which stands for every later time: a sleep or a
\* join timeout still pending there is over.
Due(t) == now >= t \/ now = MaxTime

Tick ==
  /\ now < MaxTime
  /\ now' = now + 1
  /\ UNCHANGED <<sgl, qn, mgr, subj, sessVars, timers, nTimers, nThreads, pc, loc, res, prev, hist>>


\* ------------------------------------------------- Timer._countdown, thread k
\* while self.is_running and not self._stop_event.is_set():
CountdownCheck(k) ==
  /\ pc[k] = "t_check"
  /\ LET tm == timers[loc[k].timer]
     IN  Continue(k, IF tm.is_running /\ ~tm.stop_event THEN "t_grt" ELSE "t_done", loc[k])
  /\ UNCHANGED <<sgl, qn, mgr, subj, now, sessVars, timers, nTimers, nThreads, hist>>

\* remaining = self.get_remaining_time()
CountdownRemaining(k) ==
  /\ pc[k] = "t_grt"
  /\ LET t == loc[k].timer
         r == GetRemainingTime(timers[t], now)
     IN  /\ timers' = [timers EXCEPT ![t] = r[2]]
         /\ Continue(k, "t_notify1", [loc[k] EXCEPT !.remaining = r[1]])
  /\ UNCHANGED <<sgl, qn, mgr, subj, now, sessVars, nTimers, nThreads, hist>>

\* self.notify({'remaining_time': remaining, 'time_expired': remaining == 0})
\* QuizManager.update acts on a payload whose time_expired is True
CountdownNotify(k) ==
  /\ pc[k] = "t_notify1"
  /\ LET t == loc[k].timer
         expired == loc[k].remaining = 0
         l == Publish(loc[k], expired, FALSE)
     IN  /\ hist' = NotePublish(t)
         /\ IF timers[t].attached /\ expired
              THEN Continue(k, "up_check", [l EXCEPT !.ret = "t_exp"])
              ELSE Continue(k, "t_exp", l)
  /\ UNCHANGED <<sgl, qn, mgr, subj, now, sessVars, timers, nTimers, nThreads>>

\* if remaining == 0: is_expired = True; is_running = False ... else time.sleep(1)
CountdownExpire(k) ==
  /\ pc[k] = "t_exp"
  /\ LET t == loc[k].timer
     IN  IF loc[k].remaining = 0
           THEN /\ timers' = [timers EXCEPT ![t].is_expired = TRUE,
                                            ![t].is_running = FALSE]
                /\ Continue(k, "t_notify2", [loc[k] EXCEPT !.sawZero = TRUE])
           ELSE /\ timers' = timers
                /\ Continue(k, "t_sleep",
                            [loc[k] EXCEPT !.wakeAt = now + SleepSeconds * TicksPerSec,
                                           !.remaining = 0])
  /\ UNCHANGED <<sgl, qn, mgr, subj, now, sessVars, nTimers, nThreads, hist>>

\* self.notify({'time_expired': True, 'remaining_time': 0}); break
CountdownNotifyExpired(k) ==
  /\ pc[k] = "t_notify2"
  /\ LET t == loc[k].timer
         l == Publish(loc[k], TRUE, TRUE)
     IN  /\ hist' = NotePublish(t)
         /\ IF timers[t].attached
              THEN Continue(k, "up_check", [l EXCEPT !.ret = "t_done"])
              ELSE Continue(k, "t_done", l)
  /\ UNCHANGED <<sgl, qn, mgr, subj, now, sessVars, timers, nTimers, nThreads>>

\* time.sleep(1) is over
CountdownWake(k) ==
  /\ pc[k] = "t_sleep"
  /\ Due(loc[k].wakeAt)
  /\ Continue(k, "t_check", [loc[k] EXCEPT !.wakeAt = 0])
  /\ UNCHANGED <<sgl, qn, mgr, subj, now, sessVars, timers, nTimers, nThreads, hist>>

\* QuizManager.update on the thread that published: if self.quiz_active: end_quiz()
UpdateCheck(k) ==
  /\ pc[k] = "up_check"
  /\ IF quiz_active
       THEN Continue(k, "eq_check", loc[k])
       ELSE Continue(k, loc[k].ret, [loc[k] EXCEPT !.ret = "none"])
  /\ UNCHANGED <<sgl, qn, mgr, subj, now, sessVars, timers, nTimers, nThreads, hist>>

\* what is left of an executor's locals when end_quiz has returned
AfterEndQuiz(e, l) ==
  IF e = FG THEN l
  ELSE [l EXCEPT !.ret = "none", !.sret = "none", !.tgt = 0,
                 !.answered = 0, !.total = 0, !.final = 0, !.completed = FALSE,
                 !.notes = << >>]

\* end_quiz without its early return for a session that is already inactive
EndQuizCheckNoEarlyReturn(e) ==
  /\ pc[e] = "eq_check"
  /\ Continue(e, "eq_set", loc[e])
  /\ UNCHANGED <<sgl, qn, mgr, subj, now, sessVars, timers, nTimers, nThreads, hist>>

\* ---------------------------------------- QuizManager.end_quiz, executor e
\* if not self.quiz_active: return the summary computed from the stored state
EndQuizCheck(e) ==
  /\ pc[e] = "eq_check"
  /\ IF ~quiz_active
       THEN Continue(e, loc[e].ret, AfterEndQuiz(e, Summary(loc[e])))
       ELSE Continue(e, "eq_set", loc[e])
  /\ UNCHANGED <<sgl, qn, mgr, subj, now, sessVars, timers, nTimers, nThreads, hist>>

\* self.quiz_active = False; if self.timer: self.timer.stop()
EndQuizSet(e) ==
  /\ pc[e] = "eq_set"
  /\ quiz_active' = FALSE
  /\ IF timer # 0
       THEN Continue(e, "st_check", [loc[e] EXCEPT !.tgt = timer, !.sret = "eq_complete"])
       ELSE Continue(e, "eq_complete", loc[e])
  /\ UNCHANGED <<sgl, qn, mgr, subj, now, questions, current_question_index, quiz_duration, current_user,
                 user, timer, timers, nTimers, nThreads, hist>>

\* if self.current_user: self.current_user.complete_quiz()
EndQuizComplete(e) ==
  /\ pc[e] = "eq_complete"
  /\ IF current_user # "none"
       THEN /\ user' = [user EXCEPT !.total_score = @ + user.current_score,
                                    !.quizzes_taken = @ + 1]
            /\ hist' = [hist EXCEPT !.completions = @ + 1]
       ELSE UNCHANGED <<user, hist>>
  /\ Continue(e, "eq_notify", loc[e])
  /\ UNCHANGED <<sgl, qn, mgr, subj, now, questions, current_question_index, quiz_active, quiz_duration,
                 current_user, timer, timers, nTimers, nThreads>>

\* results = {...}; self.notify({'type': 'quiz_complete', 'results': results})
EndQuizNotify(e) ==
  /\ pc[e] = "eq_notify"
  /\ hist' = [hist EXCEPT !.notified = @ + 1]
  /\ Continue(e, loc[e].ret,
              AfterEndQuiz(e, [Summary(loc[e]) EXCEPT
                                 !.completed = TRUE,
                                 !.notes = Append(@, "quiz_complete")]))
  /\ UNCHANGED <<sgl, qn, mgr, subj, now, sessVars, timers, nTimers, nThreads>>

\* ------------------------------------------------ Timer.stop, executor e
\* if not self.is_running: return;  self.is_running = False; self._stop_event.set()
TimerStopSet(e) ==
  /\ pc[e] = "st_check"
  /\ LET t == loc[e].tgt
     IN  IF ~timers[t].is_running
           THEN /\ timers' = [timers EXCEPT ![t].stopReturned = TRUE]
                /\ Continue(e, loc[e].sret, loc[e])
           ELSE /\ timers' = [timers EXCEPT ![t].is_running = FALSE,
                                            ![t].stop_event = TRUE]
                /\ Continue(e, "st_join", [loc[e] EXCEPT !.joinFrom = now])
  /\ UNCHANGED <<sgl, qn, mgr, subj, now, sessVars, nTimers, nThreads, hist>>

\* if self._timer_thread and self._timer_thread.is_alive(): join(timeout=1.0)
\* (joining the current thread raises, and stop's handler swallows it)
TimerStopJoin(e) ==
  /\ pc[e] = "st_join"
  /\ LET t == loc[e].tgt
         th == timers[t].thread
     IN  /\ \/ th = 0
            \/ th = e
            \/ pc[th] = "t_done"
            \/ Due(loc[e].joinFrom + JoinTimeout * TicksPerSec)
         /\ timers' = [timers EXCEPT ![t].stopReturned = TRUE]
  /\ Continue(e, loc[e].sret, [loc[e] EXCEPT !.joinFrom = 0])
  /\ UNCHANGED <<sgl, qn, mgr, subj, now, sessVars, nTimers, nThreads, hist>>

\* ------------------------------------------------------ Timer.start
\* start() on a Timer that is not running, its new countdown thread being k
TimerStart(tm, t, k) ==
  [tm EXCEPT !.start_time = t, !.end_time = t + tm.duration * TicksPerSec,
             !.is_running = TRUE, !.is_expired = FALSE, !.stop_event = FALSE,
             !.thread = k, !.stopReturned = FALSE]


\* ------------------------------------------- QuizManager.load_questions
\* load_questions without its check of the list
LoadQuestionsUnchecked(qs) ==
  /\ pc[FG] = "idle"
  /\ questions' = qs
  /\ current_question_index' = 0
  /\ hist' = [hist EXCEPT !.reloaded = TRUE]
  /\ Return([Result("load_questions", "ok", LocInit) EXCEPT
               !.questions0 = questions, !.index0 = current_question_index,
               !.active0 = quiz_active, !.published = TRUE])
  /\ UNCHANGED <<sgl, qn, mgr, subj, now, quiz_active, quiz_duration, current_user, user, timer,
                 timers, nTimers, nThreads>>

\* the check of the list, then questions, the index and the questions_loaded
\* notification
LoadQuestions(qs) ==
  /\ pc[FG] = "idle"
  /\ IF qs = << >>
       THEN /\ Return([Result("load_questions", "raised", LocInit) EXCEPT
                        !.questions0 = questions, !.index0 = current_question_index,
                        !.active0 = quiz_active])
            /\ UNCHANGED <<questions, current_question_index, hist>>
       ELSE /\ questions' = qs
            /\ current_question_index' = 0
            /\ hist' = [hist EXCEPT !.reloaded = TRUE]
            /\ Return([Result("load_questions", "ok", LocInit) EXCEPT
                         !.questions0 = questions, !.index0 = current_question_index,
                         !.active0 = quiz_active, !.published = TRUE])
  /\ UNCHANGED <<sgl, qn, mgr, subj, now, quiz_active, quiz_duration, current_user, user, timer,
                 timers, nTimers, nThreads>>

\* ----------------------------------------------- QuizManager.start_quiz
\* what a start_quiz call finds when it begins, and its duration argument
StartEntry(d) ==
  [Entry(LocInit) EXCEPT !.given = d, !.configured0 = quiz_duration, !.timers0 = nTimers]

\* start_quiz without its two checks
StartQuizUnchecked(u, d) ==
  /\ pc[FG] = "idle"
  /\ nTimers + 1 \in DOMAIN timers
  /\ nThreads < MaxThreads
  /\ current_user' = u
  /\ current_question_index' = 0
  /\ quiz_active' = TRUE
  /\ quiz_duration' = IF Truthy(d) THEN d ELSE quiz_duration
  /\ hist' = [hist EXCEPT !.started = TRUE, !.successes = 0,
                          !.completions = 0, !.notified = 0,
                          !.reloaded = FALSE]
  /\ Enter("sq_timer", StartEntry(d))
  /\ UNCHANGED <<sgl, qn, mgr, subj, now, questions, user, timer, timers, nTimers, nThreads>>

\* the checks, then current_user, index, quiz_active and quiz_duration
StartQuiz(u, d) ==
  /\ pc[FG] = "idle"
  /\ IF questions = << >> \/ u = "none"
       THEN /\ Return([Result("start_quiz", "raised", LocInit) EXCEPT
                         !.active0 = quiz_active, !.timers0 = nTimers,
                         !.notes0 = hist.startedNotes])
            /\ UNCHANGED <<current_user, current_question_index, quiz_active,
                           quiz_duration, hist>>
       ELSE /\ nTimers + 1 \in DOMAIN timers
            /\ nThreads < MaxThreads
            /\ current_user' = u
            /\ current_question_index' = 0
            /\ quiz_active' = TRUE
            /\ quiz_duration' = IF Truthy(d) THEN d ELSE quiz_duration
            /\ hist' = [hist EXCEPT !.started = TRUE, !.successes = 0,
                                    !.completions = 0, !.notified = 0,
                                    !.reloaded = FALSE]
            /\ Enter("sq_timer", StartEntry(d))
  /\ UNCHANGED <<sgl, qn, mgr, subj, now, questions, user, timer, timers, nTimers, nThreads>>

\* self.timer = Timer(self.quiz_duration); self.timer.attach(self); self.timer.start()
StartQuizTimer ==
  /\ pc[FG] = "sq_timer"
  /\ LET t == nTimers + 1
         k == nThreads + 1
     IN  /\ timers' = [timers EXCEPT ![t] = TimerStart(NewTimer(quiz_duration, TRUE), now, k)]
         /\ timer' = t
         /\ nTimers' = t
         /\ nThreads' = k
         /\ pc' = [pc EXCEPT ![FG] = "sq_user", ![k] = "t_check"]
         /\ loc' = [loc EXCEPT ![k] = [LocInit EXCEPT !.timer = t]]
  /\ UNCHANGED <<sgl, qn, mgr, subj, now, questions, current_question_index, quiz_active, quiz_duration,
                 current_user, user, res, prev, hist>>

\* user.start_new_quiz(); notify quiz_started; return True
StartQuizUser ==
  /\ pc[FG] = "sq_user"
  /\ user' = [user EXCEPT !.current_score = 0]
  /\ hist' = [hist EXCEPT !.accepted = 0, !.startedNotes = @ + 1]
  /\ Return([Result("start_quiz", "ok", loc[FG]) EXCEPT
                !.active0 = loc[FG].active0, !.score0 = loc[FG].score0,
                !.index0 = loc[FG].index0, !.given = loc[FG].given,
                !.configured0 = loc[FG].configured0, !.timers0 = loc[FG].timers0])
  /\ UNCHANGED <<sgl, qn, mgr, subj, now, questions, current_question_index, quiz_active, quiz_duration,
                 current_user, timer, timers, nTimers, nThreads>>

\* --------------------------------------------- QuizManager.submit_answer
\* if not self.quiz_active: raise ValueError, which the handler at the end of
\* submit_answer turns into a returned error record
SubmitAnswer(a) ==
  /\ pc[FG] = "idle"
  /\ hist.successes < MaxSubmits
  /\ IF ~quiz_active
       THEN Return(Result("submit_answer", "error", Entry(LocInit)))
       ELSE Enter("sa_timeup", [Entry(LocInit) EXCEPT !.answer = a])
  /\ UNCHANGED <<sgl, qn, mgr, subj, now, sessVars, timers, nTimers, nThreads, hist>>

\* submit_answer without the expiry check before scoring
SubmitTimeUpUnchecked ==
  /\ pc[FG] = "sa_timeup"
  /\ Continue(FG, "sa_score", loc[FG])
  /\ UNCHANGED <<sgl, qn, mgr, subj, now, sessVars, timers, nTimers, nThreads, hist>>

\* if self.timer and self.timer.is_time_up(): self.end_quiz(); return {... 'Time is up!'}
SubmitTimeUp ==
  /\ pc[FG] = "sa_timeup"
  /\ IF timer # 0
       THEN LET r == IsTimeExpired(timers[timer], now)
            IN  /\ timers' = [timers EXCEPT ![timer] = r[2]]
                /\ IF r[1]
                     THEN Continue(FG, "eq_check", [loc[FG] EXCEPT !.ret = "sa_expired"])
                     ELSE Continue(FG, "sa_score", loc[FG])
       ELSE /\ Continue(FG, "sa_score", loc[FG])
            /\ timers' = timers
  /\ UNCHANGED <<sgl, qn, mgr, subj, now, sessVars, nTimers, nThreads, hist>>

\* points_earned that does not look at is_correct
PointsEarnedAlways(q, a) == q.points

\* points the question gives for answer a
PointsEarned(q, a) == IF CheckAnswer(q, a) THEN q.points ELSE 0

\* submit_answer whose handler moves on to the next question when check_answer
\* has raised
SubmitScoreErrorAdvances ==
  /\ pc[FG] = "sa_score"
  /\ IF questions = << >> \/ current_question_index >= Len(questions)
       THEN /\ Return(Result("submit_answer", "error", loc[FG]))
            /\ UNCHANGED <<user, hist, current_question_index>>
       ELSE LET q == questions[current_question_index + 1]
                is_correct == CheckAnswer(q, loc[FG].answer)
                points_earned == PointsEarned(q, loc[FG].answer)
                score == IF current_user # "none"
                           THEN user.current_score + points_earned
                           ELSE user.current_score
            IN  IF q.raises
                  THEN /\ Return(Result("submit_answer", "check_error", loc[FG]))
                       /\ current_question_index' = current_question_index + 1
                       /\ UNCHANGED <<user, hist>>
                  ELSE /\ user' = [user EXCEPT !.current_score = score]
                       /\ hist' = [hist EXCEPT
                                     !.accepted = IF is_correct THEN @ + q.points ELSE @,
                                     !.successes = @ + 1]
                       /\ current_question_index' = current_question_index
                       /\ Continue(FG, "nq_inc",
                                   [loc[FG] EXCEPT !.is_correct = is_correct,
                                                   !.points_earned = points_earned,
                                                   !.score = IF current_user # "none"
                                                               THEN score ELSE 0,
                                                   !.nret = "sa_notify"])
  /\ UNCHANGED <<sgl, qn, mgr, subj, now, questions, quiz_active, quiz_duration,
                 current_user, timer, timers, nTimers, nThreads>>

\* get_current_question; check_answer, whose exception the handler at the end of
\* submit_answer turns into an error record; points_earned; add_points
SubmitScore ==
  /\ pc[FG] = "sa_score"
  /\ IF questions = << >> \/ current_question_index >= Len(questions)
       THEN /\ Return(Result("submit_answer", "error", loc[FG]))
            /\ UNCHANGED <<user, hist>>
       ELSE LET q == questions[current_question_index + 1]
                is_correct == CheckAnswer(q, loc[FG].answer)
                points_earned == PointsEarned(q, loc[FG].answer)
                score == IF current_user # "none"
                           THEN user.current_score + points_earned
                           ELSE user.current_score
            IN  IF q.raises
                  THEN /\ Return(Result("submit_answer", "check_error", loc[FG]))
                       /\ UNCHANGED <<user, hist>>
                  ELSE /\ user' = [user EXCEPT !.current_score = score]
                       /\ hist' = [hist EXCEPT
                                     !.accepted = IF is_correct THEN @ + q.points ELSE @,
                                     !.successes = @ + 1]
                       /\ Continue(FG, "nq_inc",
                                   [loc[FG] EXCEPT !.is_correct = is_correct,
                                                   !.points_earned = points_earned,
                                                   !.score = IF current_user # "none"
                                                               THEN score ELSE 0,
                                                   !.nret = "sa_notify"])
  /\ UNCHANGED <<sgl, qn, mgr, subj, now, questions, current_question_index, quiz_active, quiz_duration,
                 current_user, timer, timers, nTimers, nThreads>>

\* next_question that ends the quiz one question too late (> for >=)
NextQuestionIncOffByOne ==
  /\ pc[FG] = "nq_inc"
  /\ current_question_index' = current_question_index + 1
  /\ IF current_question_index + 1 > Len(questions)
       THEN Continue(FG, "eq_check", [loc[FG] EXCEPT !.ret = loc[FG].nret])
       ELSE Continue(FG, loc[FG].nret, loc[FG])
  /\ UNCHANGED <<sgl, qn, mgr, subj, now, questions, quiz_active, quiz_duration, current_user, user,
                 timer, timers, nTimers, nThreads, hist>>

\* --------------------------------------------- QuizManager.next_question
\* self.current_question_index += 1; past the last question: self.end_quiz()
NextQuestionInc ==
  /\ pc[FG] = "nq_inc"
  /\ current_question_index' = current_question_index + 1
  /\ IF current_question_index + 1 >= Len(questions)
       THEN Continue(FG, "eq_check", [loc[FG] EXCEPT !.ret = loc[FG].nret])
       ELSE Continue(FG, loc[FG].nret,
                     [loc[FG] EXCEPT !.notes = Append(@, "question_change"),
                                     !.qnum = current_question_index + 2])
  /\ UNCHANGED <<sgl, qn, mgr, subj, now, questions, quiz_active, quiz_duration, current_user, user,
                 timer, timers, nTimers, nThreads, hist>>

\* next_question called by the caller itself
NextQuestion ==
  /\ pc[FG] = "idle"
  /\ current_question_index < MaxIndex
  /\ Enter("nq_inc", [LocInit EXCEPT !.nret = "ret_nq"])
  /\ hist' = [hist EXCEPT !.reloaded = TRUE]
  /\ UNCHANGED <<sgl, qn, mgr, subj, now, sessVars, timers, nTimers, nThreads>>

\* -------------------------------------------------- QuizManager.end_quiz
\* end_quiz called by the caller itself
EndQuiz ==
  /\ pc[FG] = "idle"
  /\ Enter("eq_check", [LocInit EXCEPT !.ret = "ret_eq"])
  /\ UNCHANGED <<sgl, qn, mgr, subj, now, sessVars, timers, nTimers, nThreads, hist>>

\* ----------------------------------------- QuizManager.get_quiz_progress
\* if not self.quiz_active: return {'active': False}
GetQuizProgress ==
  /\ pc[FG] = "idle"
  /\ IF ~quiz_active
       THEN Return(Result("get_quiz_progress", "inactive", Entry(LocInit)))
       ELSE Enter("gp_expired", Entry(LocInit))
  /\ UNCHANGED <<sgl, qn, mgr, subj, now, sessVars, timers, nTimers, nThreads, hist>>

\* if self.timer and self.timer.is_time_expired(): quiz_active = False; return inactive
ProgressExpired ==
  /\ pc[FG] = "gp_expired"
  /\ IF timer # 0
       THEN LET r == IsTimeExpired(timers[timer], now)
            IN  /\ timers' = [timers EXCEPT ![timer] = r[2]]
                /\ IF r[1]
                     THEN /\ quiz_active' = FALSE
                          /\ Return(Result("get_quiz_progress", "time_up", loc[FG]))
                     ELSE /\ Continue(FG, "gp_remaining", loc[FG])
                          /\ quiz_active' = quiz_active
       ELSE /\ Continue(FG, "gp_remaining", loc[FG])
            /\ UNCHANGED <<timers, quiz_active>>
  /\ UNCHANGED <<sgl, qn, mgr, subj, now, questions, current_question_index, quiz_duration, current_user,
                 user, timer, nTimers, nThreads, hist>>

\* remaining_time = self.timer.get_remaining_time(); return {'active': True, ...}
ProgressRemaining ==
  /\ pc[FG] = "gp_remaining"
  /\ IF timer # 0
       THEN timers' = [timers EXCEPT ![timer] = GetRemainingTime(timers[timer], now)[2]]
       ELSE timers' = timers
  /\ Return([Result("get_quiz_progress", "progress", loc[FG]) EXCEPT
               !.active = TRUE,
               !.score = IF current_user # "none" THEN user.current_score ELSE 0])
  /\ UNCHANGED <<sgl, qn, mgr, subj, now, sessVars, nTimers, nThreads, hist>>

\* ---------------------------------------------------------- the program
Countdown(k) ==
  \/ CountdownCheck(k)
  \/ CountdownRemaining(k)
  \/ CountdownNotify(k)
  \/ CountdownExpire(k)
  \/ CountdownNotifyExpired(k)
  \/ CountdownWake(k)
  \/ UpdateCheck(k)

EndQuizSteps(e) ==
  \/ EndQuizCheck(e)
  \/ EndQuizSet(e)
  \/ EndQuizComplete(e)
  \/ EndQuizNotify(e)

TimerStopSteps(e) ==
  \/ TimerStopSet(e)
  \/ TimerStopJoin(e)

\* the foreground flow begins a call of the session's public interface
Call ==
  \/ \E qs \in QuestionLists : LoadQuestions(qs)
  \/ \E u \in Users, d \in Durations : StartQuiz(u, d)
  \/ \E a \in Candidates : SubmitAnswer(a)
  \/ NextQuestion
  \/ EndQuiz
  \/ GetQuizProgress

\* the foreground flow carries on with the call it is in
Proceed ==
  \/ StartQuizTimer
  \/ StartQuizUser
  \/ SubmitTimeUp
  \/ SubmitScore
  \/ NextQuestionInc
  \/ ProgressExpired
  \/ ProgressRemaining

Next ==
  \/ Tick
  \/ Call
  \/ Proceed
  \/ \E e \in Execs : EndQuizSteps(e)
  \/ \E e \in Execs : TimerStopSteps(e)
  \/ \E k \in Threads : Countdown(k)

Spec == Init /\ [][Next]_vars


\* The scheduler lets every executor that is inside a call carry on, and time
\* passes; nothing obliges the caller to begin another call.
FgSteps == Proceed \/ EndQuizSteps(FG) \/ TimerStopSteps(FG)
ThreadSteps(k) == Countdown(k) \/ EndQuizSteps(k) \/ TimerStopSteps(k)

FairSpec ==
  /\ Spec
  /\ WF_vars(Tick)
  /\ WF_vars(FgSteps)
  /\ \A k \in Threads : WF_vars(ThreadSteps(k))

\* ------------------------------------- a session started more than once
\* A new manager with room for MaxRestartTimers Timer objects: one list of
\* questions is loaded and the session is started, ended and started again
\* while the countdown threads of all its Timers run.
RestartInit ==
  /\ now = 0
  /\ questions = << >>
  /\ current_question_index = 0
  /\ quiz_active = FALSE
  /\ quiz_duration = DefaultDuration
  /\ current_user = "none"
  /\ user = [current_score |-> 0, total_score |-> 0, quizzes_taken |-> 0]
  /\ timer = 0
  /\ timers = [t \in RestartTimerIds |-> NoTimer]
  /\ nTimers = 0
  /\ nThreads = 0
  /\ pc = [e \in Execs |-> IF e = FG THEN "idle" ELSE "none"]
  /\ loc = [e \in Execs |-> LocInit]
  /\ res = ResInit
  /\ prev = ResInit
  /\ hist = HistInit
  /\ subj = SubjInit
  /\ mgr = MgrInit
  /\ qn = QnInit
  /\ sgl = SglInit

RestartCall ==
  \/ LoadQuestions(<<Q1>>)
  \/ \E d \in RestartDurations : StartQuiz("u", d)
  \/ EndQuiz

RestartProceed ==
  \/ StartQuizTimer
  \/ StartQuizUser

RestartNext ==
  \/ Tick
  \/ RestartCall
  \/ RestartProceed
  \/ \E e \in Execs : EndQuizSteps(e)
  \/ \E e \in Execs : TimerStopSteps(e)
  \/ \E k \in Threads : Countdown(k)

RestartSpec == RestartInit /\ [][RestartNext]_vars

\* ----------------------- quiz.quiz_manager.QuizManager, one caller thread
\* Every public method runs inside `with self._lock`, a threading.Lock, which
\* the thread that holds it cannot acquire again.

\* raise ValueError: the exception leaves every enclosing `with` block, which
\* releases the lock, and reaches the caller
MgrRaise(m) ==
  [m EXCEPT !.lock = FALSE, !.pc = "idle", !.stack = << >>, !.want = "none",
            !.arg = 0, !.qs = << >>, !.ret = MgrResInit, !.local = MgrResInit,
            !.res = [MgrResInit EXCEPT !.op = m.top, !.kind = "raised"]]

\* leaving the method's `with` block by return: the lock is released and r goes
\* to the caller, or to the method that called this one; releasing a lock that
\* is not held raises RuntimeError
MgrReturn(m, r) ==
  IF ~m.lock THEN MgrRaise(m)
  ELSE IF m.stack = << >>
    THEN [m EXCEPT !.lock = FALSE, !.pc = "idle", !.res = r, !.want = "none",
                   !.arg = 0, !.qs = << >>, !.ret = MgrResInit, !.local = MgrResInit]
    ELSE [m EXCEPT !.lock = FALSE, !.pc = Head(m.stack), !.stack = Tail(m.stack),
                   !.ret = r, !.want = "none"]

\* the method calls method op of the same object, to carry on at cont
MgrNested(m, op, cont) ==
  [m EXCEPT !.pc = "acquire", !.want = op, !.stack = <<cont>> \o m.stack]

MgrResult(m, kind) == [MgrResInit EXCEPT !.op = m.top, !.kind = kind]

\* the statements of the method the caller is in, up to its return, its raise
\* or its next call of a method of the same object
MgrBodyStep(m, t) ==
  CASE m.pc = "load_questions" ->
         IF m.qs = << >> THEN MgrRaise(m)
         ELSE MgrReturn([m EXCEPT !.questions = m.qs, !.current_question_index = 0],
                        MgrResult(m, "ok"))
    [] m.pc = "start_quiz" ->
         IF m.questions = << >> THEN MgrRaise(m)
         ELSE MgrReturn([m EXCEPT !.current_user = "u", !.current_question_index = 0,
                                  !.quiz_active = TRUE, !.current_score = 0,
                                  !.quiz_duration = IF Truthy(m.arg) THEN m.arg ELSE @,
                                  !.start_time = t],
                        MgrResult(m, "ok"))
    [] m.pc = "get_current_question" ->
         MgrReturn(m, [MgrResult(m, "question") EXCEPT
                         !.value = IF m.questions = << >>
                                      \/ m.current_question_index >= Len(m.questions)
                                     THEN 0 ELSE m.current_question_index + 1])
    [] m.pc = "submit_answer" ->
         IF ~m.quiz_active THEN MgrRaise(m)
         ELSE MgrNested(m, "get_current_question", "sa_question")
    [] m.pc = "sa_question" ->
         IF m.ret.value = 0 \/ m.questions[m.ret.value].raises THEN MgrRaise(m)
         ELSE LET q == m.questions[m.ret.value]
                  is_correct == CheckAnswer(q, m.arg)
                  points_earned == IF is_correct THEN q.points ELSE 0
                  m1 == [m EXCEPT !.current_score = @ + points_earned,
                                  !.local = [MgrResult(m, "scored") EXCEPT
                                               !.correct = is_correct,
                                               !.points = points_earned,
                                               !.score = m.current_score + points_earned]]
              IN  MgrNested(m1, "next_question", "sa_result")
    [] m.pc = "sa_result" -> MgrReturn(m, m.local)
    [] m.pc = "next_question" ->
         LET m1 == [m EXCEPT !.current_question_index = @ + 1]
         IN  IF m1.current_question_index >= Len(m1.questions)
               THEN MgrNested(m1, "end_quiz", "nq_false")
               ELSE MgrReturn(m1, MgrResult(m, "true"))
    [] m.pc = "nq_false" -> MgrReturn(m, MgrResult(m, "false"))
    [] m.pc = "end_quiz" ->
         IF ~m.quiz_active THEN MgrRaise(m)
         ELSE MgrReturn([m EXCEPT !.quiz_active = FALSE],
                        [MgrResult(m, "summary") EXCEPT !.score = m.current_score,
                                                        !.value = m.current_question_index])
    [] m.pc = "get_quiz_progress" ->
         MgrReturn(m, [MgrResult(m, IF m.quiz_active THEN "active" ELSE "inactive")
                         EXCEPT !.score = IF m.quiz_active THEN m.current_score ELSE 0])

MgrMethods ==
  {"load_questions", "start_quiz", "get_current_question", "submit_answer",
   "next_question", "end_quiz", "get_quiz_progress"}

\* the caller calls a public method: it comes to the method's `with self._lock`
MgrCall(op, a, qs) ==
  /\ mgr.pc = "idle"
  /\ mgr' = [mgr EXCEPT !.pc = "acquire", !.top = op, !.want = op, !.stack = << >>,
                        !.arg = a, !.qs = qs, !.res = MgrResInit]
  /\ UNCHANGED <<sgl, qn, subj, now, sessVars, timers, nTimers, nThreads, pc, loc, res, prev,
                 hist>>

\* `with self._lock`: the lock is acquired once nobody holds it
MgrAcquire ==
  /\ mgr.pc = "acquire"
  /\ ~mgr.lock
  /\ mgr' = [mgr EXCEPT !.lock = TRUE, !.pc = mgr.want]
  /\ UNCHANGED <<sgl, qn, subj, now, sessVars, timers, nTimers, nThreads, pc, loc, res, prev,
                 hist>>

\* the caller, holding the lock, runs the method's statements
MgrBody ==
  /\ mgr.pc \notin {"idle", "acquire"}
  /\ mgr' = MgrBodyStep(mgr, now)
  /\ UNCHANGED <<sgl, qn, subj, now, sessVars, timers, nTimers, nThreads, pc, loc, res, prev,
                 hist>>

LockCall ==
  \/ \E qs \in QuestionLists : MgrCall("load_questions", 0, qs)
  \/ \E d \in Durations : MgrCall("start_quiz", d, << >>)
  \/ \E a \in Candidates : MgrCall("submit_answer", a, << >>)
  \/ \E op \in MgrMethods \ {"load_questions", "start_quiz", "submit_answer"} :
       MgrCall(op, 0, << >>)

LockNext ==
  \/ Tick
  \/ LockCall
  \/ MgrAcquire
  \/ MgrBody

LockSpec == Init /\ [][LockNext]_vars

\* the caller's thread is scheduled, and time passes
FairLockSpec ==
  /\ LockSpec
  /\ WF_vars(Tick)
  /\ WF_vars(MgrAcquire)
  /\ WF_vars(MgrBody)

\* ------------------------------------- a Question used on its own
\* Question(text, question_type, correct_answer, points, options): __init__
\* assigns the fields and _validate_question accepts them or raises
Construct(text, question_type, correct_answer, points, options) ==
  /\ qn.state = "none"
  /\ LET q == [QnInit EXCEPT !.text = text, !.question_type = question_type,
                             !.correct_answer = correct_answer, !.points = points,
                             !.options = options]
     IN  qn' = [q EXCEPT !.state = IF ValidateQuestion(q) = "ok" THEN "built"
                                                                 ELSE "raised"]
  /\ UNCHANGED <<sgl, mgr, subj, now, sessVars, timers, nTimers, nThreads, pc, loc, res, prev,
                 hist>>

\* q.check_answer(a)
CheckAnswerCall(a) ==
  /\ qn.state = "built"
  /\ qn' = [qn EXCEPT !.op = "check_answer", !.answer = a, !.result = CheckAnswer(qn, a)]
  /\ UNCHANGED <<sgl, mgr, subj, now, sessVars, timers, nTimers, nThreads, pc, loc, res, prev,
                 hist>>

QuestionNext ==
  \/ \E text \in Texts, question_type \in QuestionTypes, correct_answer \in Answers,
        points \in QuestionPoints, options \in OptionLists :
       Construct(text, question_type, correct_answer, points, options)
  \/ \E a \in Answers : CheckAnswerCall(a)

QuestionSpec == Init /\ [][QuestionNext]_vars

\* ------------------------------------------- a Timer used on its own
\* The Timer under test is timers[1]; the session is never started.
Tm == timers[1]

\* Timer(d), constructed and not yet started
TimerInit ==
  /\ now = 0
  /\ questions = << >>
  /\ current_question_index = 0
  /\ quiz_active = FALSE
  /\ quiz_duration = DefaultDuration
  /\ current_user = "none"
  /\ user = [current_score |-> 0, total_score |-> 0, quizzes_taken |-> 0]
  /\ timer = 0
  /\ \E d \in TimerDurations :
       timers = [t \in TimerIds |-> IF t = 1 THEN NewTimer(d, FALSE) ELSE NoTimer]
  /\ nTimers = 1
  /\ nThreads = 0
  /\ pc = [e \in Execs |-> IF e = FG THEN "idle" ELSE "none"]
  /\ loc = [e \in Execs |-> LocInit]
  /\ res = ResInit
  /\ prev = ResInit
  /\ hist = HistInit
  /\ subj = SubjInit
  /\ mgr = MgrInit
  /\ qn = QnInit
  /\ sgl = SglInit

\* the record a call on the Timer leaves, with what the call found
TimerResult(op, kind) ==
  CASE op \in {"get_remaining_time", "is_time_expired"} ->
         [ResInit EXCEPT !.op = op, !.kind = kind,
                         !.running0 = Tm.is_running, !.expired0 = Tm.is_expired,
                         !.overdue0 = Tm.end_time # NoTime /\ now >= Tm.end_time,
                         !.fresh0 = hist.fresh]
    [] op = "start" ->
         [ResInit EXCEPT !.op = op, !.kind = kind,
                         !.running0 = Tm.is_running,
                         !.start0 = Tm.start_time, !.end_time0 = Tm.end_time,
                         !.threads0 = nThreads]
    [] OTHER -> [ResInit EXCEPT !.op = op, !.kind = kind]

\* the history notes that the caller made a call on the Timer
Touched(h) == [h EXCEPT !.fresh = FALSE, !.phase = "other"]

\* Timer.start without its check of is_running
TimerStartCallUnguarded ==
  /\ pc[FG] = "idle"
  /\ nThreads < MaxThreads
  /\ LET k == nThreads + 1
     IN  /\ timers' = [timers EXCEPT ![1] = TimerStart(Tm, now, k)]
         /\ nThreads' = k
         /\ pc' = [pc EXCEPT ![k] = "t_check"]
         /\ loc' = [loc EXCEPT ![k] = [LocInit EXCEPT !.timer = 1]]
  /\ res' = TimerResult("start", "started")
  /\ prev' = ResInit
  /\ hist' = [Touched(hist) EXCEPT !.fresh = TRUE, !.lastRem = NoTime,
                                   !.reverted = @ \/ Tm.is_expired]
  /\ UNCHANGED <<sgl, qn, mgr, subj, now, sessVars, nTimers>>

\* Timer.start: if self.is_running: return; else set the fields, start a thread
TimerStartCall ==
  /\ pc[FG] = "idle"
  /\ IF Tm.is_running
       THEN /\ Return(TimerResult("start", "noop"))
            /\ hist' = Touched(hist)
            /\ UNCHANGED <<timers, nThreads>>
       ELSE /\ nThreads < MaxThreads
            /\ LET k == nThreads + 1
               IN  /\ timers' = [timers EXCEPT ![1] = TimerStart(Tm, now, k)]
                   /\ nThreads' = k
                   /\ pc' = [pc EXCEPT ![k] = "t_check"]
                   /\ loc' = [loc EXCEPT ![k] = [LocInit EXCEPT !.timer = 1]]
            /\ res' = TimerResult("start", "started")
            /\ prev' = ResInit
            /\ hist' = [Touched(hist) EXCEPT !.fresh = TRUE, !.lastRem = NoTime,
                                             !.reverted = @ \/ Tm.is_expired]
  /\ UNCHANGED <<sgl, qn, mgr, subj, now, sessVars, nTimers>>

\* Timer.stop called by the caller itself
TimerStopCall ==
  /\ pc[FG] = "idle"
  /\ Enter("st_check", [LocInit EXCEPT !.tgt = 1, !.sret = "ret_stop"])
  /\ hist' = Touched(hist)
  /\ UNCHANGED <<sgl, qn, mgr, subj, now, sessVars, timers, nTimers, nThreads>>

\* Timer.pause: if not self.is_running: return; self.is_running = False
TimerPause ==
  /\ pc[FG] = "idle"
  /\ timers' = [timers EXCEPT ![1].is_running = FALSE]
  /\ Return(TimerResult("pause", IF Tm.is_running THEN "paused" ELSE "noop"))
  /\ hist' = Touched(hist)
  /\ UNCHANGED <<sgl, qn, mgr, subj, now, sessVars, nTimers, nThreads>>

\* Timer.resume: if self.is_running or self.is_expired: return; self.is_running = True
TimerResume ==
  /\ pc[FG] = "idle"
  /\ IF Tm.is_running \/ Tm.is_expired
       THEN /\ Return(TimerResult("resume", "noop"))
            /\ hist' = Touched(hist)
            /\ timers' = timers
       ELSE /\ timers' = [timers EXCEPT ![1].is_running = TRUE]
            /\ Return(TimerResult("resume", "resumed"))
            /\ hist' = [Touched(hist) EXCEPT
                          !.phase = IF Tm.end_time # NoTime /\ now < Tm.end_time
                                      /\ Tm.thread # 0 /\ ~Tm.stop_event
                                      /\ \A k \in Threads : ~loc[k].term
                                      THEN "resumed" ELSE "other"]
  /\ UNCHANGED <<sgl, qn, mgr, subj, now, sessVars, nTimers, nThreads>>

\* Timer.reset(new_duration): self.stop() first
TimerReset(given) ==
  /\ pc[FG] = "idle"
  /\ Enter("st_check", [LocInit EXCEPT !.tgt = 1, !.sret = "rs_set",
                                        !.answer = IF given THEN ResetDuration ELSE 0,
                                        !.is_correct = given,
                                        !.duration0 = Tm.duration])
  /\ hist' = Touched(hist)
  /\ UNCHANGED <<sgl, qn, mgr, subj, now, sessVars, timers, nTimers, nThreads>>

\* Timer.reset: duration, remaining_time, start_time, end_time, is_running, is_expired
TimerResetSet ==
  /\ pc[FG] = "rs_set"
  /\ LET d == IF loc[FG].is_correct THEN loc[FG].answer ELSE Tm.duration
     IN  timers' = [timers EXCEPT ![1].duration = d, ![1].remaining_time = d,
                                  ![1].start_time = NoTime, ![1].end_time = NoTime,
                                  ![1].is_running = FALSE, ![1].is_expired = FALSE]
  /\ hist' = [hist EXCEPT !.lastRem = NoTime]
  /\ Return([TimerResult("reset", "ok") EXCEPT
                !.flag = loc[FG].is_correct, !.duration0 = loc[FG].duration0,
                !.value = IF loc[FG].is_correct THEN loc[FG].answer ELSE Tm.duration])
  /\ UNCHANGED <<sgl, qn, mgr, subj, now, sessVars, nTimers, nThreads>>

\* the caller asks get_remaining_time()
TimerGetRemainingTime ==
  /\ pc[FG] = "idle"
  /\ LET r == GetRemainingTime(Tm, now)
         computed == Tm.is_running /\ ~Tm.is_expired /\ Tm.end_time # NoTime
     IN  /\ timers' = [timers EXCEPT ![1] = r[2]]
         /\ Return([TimerResult("get_remaining_time", "ok") EXCEPT !.value = r[1]])
         /\ hist' = [Touched(hist) EXCEPT
                       !.lastRem = IF computed THEN r[1] ELSE @,
                       !.increased = @ \/ (computed /\ hist.lastRem # NoTime
                                                    /\ r[1] > hist.lastRem)]
  /\ UNCHANGED <<sgl, qn, mgr, subj, now, sessVars, nTimers, nThreads>>

\* the caller asks is_time_expired()
TimerIsTimeExpired ==
  /\ pc[FG] = "idle"
  /\ LET r == IsTimeExpired(Tm, now)
     IN  /\ timers' = [timers EXCEPT ![1] = r[2]]
         /\ Return([TimerResult("is_time_expired", "ok") EXCEPT !.flag = r[1]])
  /\ hist' = Touched(hist)
  /\ UNCHANGED <<sgl, qn, mgr, subj, now, sessVars, nTimers, nThreads>>

TimerCall ==
  \/ TimerStartCall
  \/ TimerStopCall
  \/ TimerPause
  \/ TimerResume
  \/ \E given \in BOOLEAN : TimerReset(given)
  \/ TimerGetRemainingTime
  \/ TimerIsTimeExpired

\* Timer._countdown with no session attached to the Timer
TimerCountdown(k) ==
  \/ CountdownCheck(k)
  \/ CountdownRemaining(k)
  \/ CountdownNotify(k)
  \/ CountdownExpire(k)
  \/ CountdownNotifyExpired(k)
  \/ CountdownWake(k)

TimerNext ==
  \/ Tick
  \/ TimerCall
  \/ TimerResetSet
  \/ TimerStopSteps(FG)
  \/ \E k \in Threads : TimerCountdown(k)

TimerSpec == TimerInit /\ [][TimerNext]_vars

\* the caller may stop calling; a call in progress, the threads and time go on
FairTimerSpec ==
  /\ TimerSpec
  /\ WF_vars(Tick)
  /\ WF_vars(TimerResetSet \/ TimerStopSteps(FG))
  /\ \A k \in Threads : WF_vars(TimerCountdown(k))

\* ----------------------------------------- a Subject used on its own
progVars == <<sgl, qn, mgr, now, sessVars, timers, nTimers, nThreads, pc, loc, res, prev, hist>>

\* a Subject of either implementation, with some observers whose update raises
ObsInit ==
  /\ now = 0
  /\ questions = << >>
  /\ current_question_index = 0
  /\ quiz_active = FALSE
  /\ quiz_duration = DefaultDuration
  /\ current_user = "none"
  /\ user = [current_score |-> 0, total_score |-> 0, quizzes_taken |-> 0]
  /\ timer = 0
  /\ timers = [t \in TimerIds |-> NoTimer]
  /\ nTimers = 0
  /\ nThreads = 0
  /\ pc = [e \in Execs |-> IF e = FG THEN "idle" ELSE "none"]
  /\ loc = [e \in Execs |-> LocInit]
  /\ res = ResInit
  /\ prev = ResInit
  /\ hist = HistInit
  /\ mgr = MgrInit
  /\ qn = QnInit
  /\ sgl = SglInit
  /\ \E g \in BOOLEAN, R \in SUBSET Observers :
       subj = [SubjInit EXCEPT !.guarded = g, !.raising = R]

\* observer in self._observers
Member(o, seq) == \E i \in 1..Len(seq) : seq[i] = o

\* list.remove(o): the first occurrence goes
RemoveFirst(seq, o) ==
  LET i == CHOOSE n \in 1..Len(seq) :
             seq[n] = o /\ \A j \in 1..(n - 1) : seq[j] # o
  IN  SubSeq(seq, 1, i - 1) \o SubSeq(seq, i + 1, Len(seq))

\* the Subject's record when a call other than notify begins
Called(op, o) ==
  [subj EXCEPT !.op = op, !.arg = o, !.snapshot = subj.observers, !.removed = {},
               !.idx = 0, !.payload = "none", !.delivered = << >>,
               !.raised = FALSE, !.propagated = FALSE]

\* attach that appends without looking
AttachAlways(o) ==
  /\ subj.mode = "idle"
  /\ subj' = [Called("attach", o) EXCEPT !.observers = Append(@, o)]
  /\ UNCHANGED progVars

\* Subject.attach: if observer not in self._observers: append
Attach(o) ==
  /\ subj.mode = "idle"
  /\ subj' = [Called("attach", o) EXCEPT
                !.observers = IF Member(o, @) THEN @ ELSE Append(@, o)]
  /\ UNCHANGED progVars

\* Subject.detach: if observer in self._observers: remove
Detach(o) ==
  /\ subj.mode = "idle"
  /\ subj' = [Called("detach", o) EXCEPT
                !.observers = IF Member(o, @) THEN RemoveFirst(@, o) ELSE @]
  /\ UNCHANGED progVars

\* Subject.notify(data) begins: for observer in self._observers
Notify(p) ==
  /\ subj.mode = "idle"
  /\ subj' = [Called("notify", 0) EXCEPT !.mode = "notify", !.payload = p]
  /\ UNCHANGED progVars

\* a loop that goes on to the observer after the next
NotifyStepSkipping ==
  /\ subj.mode = "notify"
  /\ IF subj.idx < Len(subj.observers)
       THEN LET o == subj.observers[subj.idx + 1]
                d == Append(subj.delivered, <<o, subj.payload>>)
            IN  IF o \in subj.raising
                  THEN subj' = [subj EXCEPT !.delivered = d, !.raised = TRUE,
                                            !.propagated = ~subj.guarded,
                                            !.mode = "idle"]
                  ELSE subj' = [subj EXCEPT !.delivered = d, !.idx = @ + 2]
       ELSE subj' = [subj EXCEPT !.mode = "idle"]
  /\ UNCHANGED progVars

\* one turn of notify's loop: observer.update(self, data); an update that raises
\* ends the loop, in the handler around it or in notify's caller
NotifyStep ==
  /\ subj.mode = "notify"
  /\ IF subj.idx < Len(subj.observers)
       THEN LET o == subj.observers[subj.idx + 1]
                d == Append(subj.delivered, <<o, subj.payload>>)
            IN  IF o \in subj.raising
                  THEN subj' = [subj EXCEPT !.delivered = d, !.raised = TRUE,
                                            !.propagated = ~subj.guarded,
                                            !.mode = "idle"]
                  ELSE subj' = [subj EXCEPT !.delivered = d, !.idx = @ + 1]
       ELSE subj' = [subj EXCEPT !.mode = "idle"]
  /\ UNCHANGED progVars

ObsNext ==
  \/ \E o \in Observers : Attach(o)
  \/ \E o \in Observers : Detach(o)
  \/ \E p \in Payloads : Notify(p)
  \/ NotifyStep

ObsSpec == ObsInit /\ [][ObsNext]_vars

\* ------------------- a Subject changed while its notify loop is running
\* attach called between two turns of the loop, by the update that has just
\* run or by another thread
AttachDuring(o) ==
  /\ subj.mode = "notify"
  /\ subj' = [subj EXCEPT !.observers = IF Member(o, @) THEN @ ELSE Append(@, o)]
  /\ UNCHANGED progVars

\* detach called between two turns of the loop; the loop's position stays
DetachDuring(o) ==
  /\ subj.mode = "notify"
  /\ subj' = IF Member(o, subj.observers)
               THEN [subj EXCEPT !.observers = RemoveFirst(@, o),
                                 !.removed = @ \cup {o}]
               ELSE subj
  /\ UNCHANGED progVars

LiveObsNext ==
  \/ ObsNext
  \/ \E o \in Observers : AttachDuring(o)
  \/ \E o \in Observers : DetachDuring(o)

LiveObsSpec == ObsInit /\ [][LiveObsNext]_vars

\* ------------------------ the singletons constructed by several threads
\* ScoreManager (patterns.singleton) and QuizManager (quiz.quiz_manager) have
\* the same __new__ and the same guard in __init__; caller t runs cls() step
\* by step, then stores values in the instance it was given.
SglSet(t, label, g) == sgl' = [g EXCEPT !.pc[t] = label]

\* caller t calls c()
SglConstruct(t, c) ==
  /\ sgl.pc[t] = "idle"
  /\ SglSet(t, "new_check", [sgl EXCEPT !.cls[t] = c])
  /\ UNCHANGED <<qn, mgr, subj, now, sessVars, timers, nTimers, nThreads, pc, loc, res, prev,
                 hist>>

\* __new__: if cls._instance is None:
SglNewCheck(t) ==
  /\ sgl.pc[t] = "new_check"
  /\ SglSet(t, IF sgl.instance[sgl.cls[t]] THEN "init_check" ELSE "new_lock", sgl)
  /\ UNCHANGED <<qn, mgr, subj, now, sessVars, timers, nTimers, nThreads, pc, loc, res, prev,
                 hist>>

\* __new__: with cls._lock:
SglNewLock(t) ==
  /\ sgl.pc[t] = "new_lock"
  /\ sgl.lock[sgl.cls[t]] = 0
  /\ SglSet(t, "new_locked", [sgl EXCEPT !.lock[sgl.cls[t]] = t])
  /\ UNCHANGED <<qn, mgr, subj, now, sessVars, timers, nTimers, nThreads, pc, loc, res, prev,
                 hist>>

\* __new__, holding the lock: if cls._instance is None: cls._instance = object.__new__(cls)
SglNewLocked(t) ==
  /\ sgl.pc[t] = "new_locked"
  /\ LET c == sgl.cls[t]
     IN  SglSet(t, "init_check",
                IF sgl.instance[c]
                  THEN [sgl EXCEPT !.lock[c] = 0]
                  ELSE [sgl EXCEPT !.lock[c] = 0, !.instance[c] = TRUE,
                                   !.created[c] = @ + 1])
  /\ UNCHANGED <<qn, mgr, subj, now, sessVars, timers, nTimers, nThreads, pc, loc, res, prev,
                 hist>>

\* __init__: if not hasattr(self, '_initialized'):
SglInitCheck(t) ==
  /\ sgl.pc[t] = "init_check"
  /\ SglSet(t, IF sgl.initialized[sgl.cls[t]] THEN "ready" ELSE "init_state", sgl)
  /\ UNCHANGED <<qn, mgr, subj, now, sessVars, timers, nTimers, nThreads, pc, loc, res, prev,
                 hist>>

\* __init__: self._scores = {} ... / self.questions = [] ... : the fields, emptied
SglInitState(t) ==
  /\ sgl.pc[t] = "init_state"
  /\ SglSet(t, "init_flag", [sgl EXCEPT !.stored[sgl.cls[t]] = 0])
  /\ UNCHANGED <<qn, mgr, subj, now, sessVars, timers, nTimers, nThreads, pc, loc, res, prev,
                 hist>>

\* __init__: self._initialized = True
SglInitFlag(t) ==
  /\ sgl.pc[t] = "init_flag"
  /\ SglSet(t, "ready", [sgl EXCEPT !.initialized[sgl.cls[t]] = TRUE])
  /\ UNCHANGED <<qn, mgr, subj, now, sessVars, timers, nTimers, nThreads, pc, loc, res, prev,
                 hist>>

\* the caller stores a value in the instance: add_score(u, 1) / load_questions
SglStore(t) ==
  /\ sgl.pc[t] = "ready"
  /\ sgl.stored[sgl.cls[t]] < MaxStored
  /\ sgl' = [sgl EXCEPT !.stored[sgl.cls[t]] = @ + 1]
  /\ UNCHANGED <<qn, mgr, subj, now, sessVars, timers, nTimers, nThreads, pc, loc, res, prev,
                 hist>>

\* the caller lets its reference go; it may construct again later
SglDrop(t) ==
  /\ sgl.pc[t] = "ready"
  /\ SglSet(t, "idle", [sgl EXCEPT !.cls[t] = "none"])
  /\ UNCHANGED <<qn, mgr, subj, now, sessVars, timers, nTimers, nThreads, pc, loc, res, prev,
                 hist>>

SingletonNext ==
  \E t \in Callers :
    \/ \E c \in SingletonClasses : SglConstruct(t, c)
    \/ SglNewCheck(t)
    \/ SglNewLock(t)
    \/ SglNewLocked(t)
    \/ SglInitCheck(t)
    \/ SglInitState(t)
    \/ SglInitFlag(t)
    \/ SglStore(t)
    \/ SglDrop(t)

SingletonSpec == Init /\ [][SingletonNext]_vars

\* ------------------------------------------------------------- properties
AtRest == pc[FG] = "idle"
NumQuestions == Len(questions)

\* C1: the participant's current score is the sum of the points of exactly the
\* answers check_answer accepted in this attempt; a submission that was wrong,
\* came after expiry or failed leaves the score as it found it.
C1_ScoreIsSumOfAccepted ==
  /\ user.current_score = hist.accepted
  /\ (AtRest /\ res.op = "submit_answer") =>
        /\ res.kind \in {"expired", "error"} => user.current_score = res.score0
        /\ (res.kind = "scored" /\ ~res.correct) =>
              /\ res.points = 0
              /\ user.current_score = res.score0
        /\ (res.kind = "scored" /\ res.correct) =>
              user.current_score = res.score0 + res.points

C1_Witness ==
  /\ AtRest /\ res.op = "submit_answer" /\ res.kind = "scored" /\ res.correct
  /\ res.score0 = 10 /\ user.current_score = 15

\* C2: with N questions loaded, once N submissions have been scored since
\* start_quiz (and the caller neither reloaded nor skipped questions), the session
\* is inactive, the index is N and end_quiz reports answered = N = total.
C2_AllAnsweredEndsSession ==
  (AtRest /\ hist.started /\ ~hist.reloaded /\ hist.successes = NumQuestions) =>
     /\ ~quiz_active
     /\ current_question_index = NumQuestions
     /\ res.op = "end_quiz" =>
          (res.answered = NumQuestions /\ res.total = NumQuestions)

C2_Witness ==
  /\ AtRest /\ hist.started /\ ~hist.reloaded
  /\ NumQuestions = 2 /\ hist.successes = 2
  /\ res.op = "end_quiz" /\ res.answered = 2 /\ res.final = 15

\* C3: a submit_answer that completed the quiz is the only completion of the
\* attempt: User.complete_quiz ran once and quiz_complete was published once.
C3_CompletedAtMostOnce ==
  (AtRest /\ res.op = "submit_answer" /\ res.completed) =>
     (hist.completions = 1 /\ hist.notified = 1)

\* the deadline of the session's Timer has passed and the session is still active
Overdue ==
  /\ quiz_active
  /\ timer # 0
  /\ timers[timer].end_time # NoTime
  /\ now >= timers[timer].end_time

Submitting == pc[FG] \in {"sa_timeup", "sa_score", "nq_inc"}

\* C4: once the deadline has passed, the session becomes inactive on its own
\* unless the caller submits another answer.
C4_OverdueSessionEnds == Overdue ~> (~quiz_active \/ Submitting)

\* C5: a get_quiz_progress or submit_answer call that begins when the session's
\* Timer is expired reports the session as ended and leaves it inactive.
C5_ExpiredIsObserved ==
  (AtRest /\ res.expired0) =>
     /\ res.op = "get_quiz_progress" =>
          (res.kind \in {"inactive", "time_up"} /\ ~res.active /\ ~quiz_active)
     /\ res.op = "submit_answer" =>
          (res.kind \in {"error", "expired"} /\ ~quiz_active)

C5_Witness ==
  /\ AtRest /\ res.op = "get_quiz_progress" /\ res.kind = "time_up"
  /\ res.active0 /\ res.expired0

\* C6: submit_answer on an active session whose Timer is already expired ends
\* the session and returns the expiration record (correct = false, points 0),
\* with the score and the index as they were.
C6_ExpiredSubmitNotScored ==
  (AtRest /\ res.op = "submit_answer" /\ res.active0 /\ res.expired0) =>
     /\ res.kind = "expired"
     /\ ~res.correct
     /\ res.points = 0
     /\ user.current_score = res.score0
     /\ current_question_index = res.index0
     /\ ~quiz_active

C6_Witness ==
  /\ AtRest /\ res.op = "submit_answer" /\ res.active0 /\ res.expired0
  /\ res.kind = "expired" /\ res.completed /\ res.score0 = 10

\* C7: the second of two end_quiz calls in a row reports the same final_score,
\* total_questions and answered_questions and runs no completion side effect.
C7_EndQuizIdempotent ==
  (AtRest /\ res.op = "end_quiz" /\ prev.op = "end_quiz") =>
     /\ res.final = prev.final
     /\ res.total = prev.total
     /\ res.answered = prev.answered
     /\ ~res.completed

C7_Witness ==
  /\ AtRest /\ res.op = "end_quiz" /\ prev.op = "end_quiz"
  /\ prev.completed /\ prev.final = 10 /\ prev.answered = 1

\* C8: submit_answer on a session that is not active raises to its caller and
\* changes neither the index, the score nor the active flag.
C8_InactiveSubmitRaises ==
  (AtRest /\ res.op = "submit_answer" /\ ~res.active0) =>
     /\ res.kind = "raised"
     /\ user.current_score = res.score0
     /\ current_question_index = res.index0
     /\ ~quiz_active

\* C9: once stop() has returned, the Timer publishes nothing until it is
\* started again.
C9_NoPublishAfterStop == ~hist.pubAfterStop

\* C10: a countdown publishes a payload with time_expired = true at most once,
\* nothing after its terminal payload, and exactly once when it saw remaining 0.
C10_ExpirationPublishedOnce ==
  \A k \in Threads :
     /\ loc[k].nexp <= 1
     /\ ~loc[k].late
     /\ (pc[k] = "t_done" /\ loc[k].sawZero) => loc[k].nexp = 1

TimerQueries == {"get_remaining_time", "is_time_expired"}

\* C11: while a Timer runs, successive get_remaining_time results never increase
\* and are never negative, and the Timer reports 0 remaining or expired only
\* when the full duration has elapsed since start.
C11_RemainingMonotoneNotEarly ==
  /\ ~hist.increased
  /\ (AtRest /\ res.op \in TimerQueries /\ res.running0 /\ ~res.expired0
         /\ Tm.end_time # NoTime) =>
        /\ res.value >= 0
        /\ (res.op = "get_remaining_time" /\ res.value = 0) => res.overdue0
        /\ (res.op = "is_time_expired" /\ res.flag) => res.overdue0

\* C12: outside reset(), is_expired never goes from True back to False.
C12_ExpiredIsSticky == ~hist.reverted

\* C13: a Timer paused and resumed before its deadline, and then left alone,
\* publishes its expiration notification once the deadline has passed.
C13_ResumedTimerExpires ==
  (hist.phase = "resumed" /\ now >= Tm.end_time)
     ~> (hist.phase # "resumed" \/ \E k \in Threads : loc[k].term)

\* C14: start() on a running Timer leaves start_time and end_time as they were
\* and creates no countdown thread.
C14_StartWhileRunningIsNoOp ==
  (AtRest /\ res.op = "start" /\ res.running0) =>
     /\ res.kind = "noop"
     /\ Tm.start_time = res.start0
     /\ Tm.end_time = res.end_time0
     /\ nThreads = res.threads0

C14_Witness ==
  /\ AtRest /\ res.op = "start" /\ res.running0 /\ res.kind = "noop"
  /\ Tm.start_time # NoTime /\ now > Tm.start_time /\ nThreads = 1

C16_QueryAfterDeadlineExpires ==
  (AtRest /\ res.op \in TimerQueries /\ res.running0 /\ ~res.expired0 /\ res.overdue0) =>
     /\ res.op = "get_remaining_time" => res.value = 0
     /\ res.op = "is_time_expired" => res.flag
     /\ Tm.is_expired
     /\ ~Tm.is_running

C16_Witness ==
  /\ AtRest /\ res.op = "get_remaining_time" /\ res.running0 /\ ~res.expired0
  /\ res.overdue0 /\ Tm.duration = 1 /\ Tm.is_expired
  /\ pc[Tm.thread] = "t_sleep"

\* the notify call has returned
Notified == subj.mode = "idle" /\ subj.op = "notify"

\* the update calls notify(p) owes the observers in seq
Expected(seq, p) == [i \in 1..Len(seq) |-> <<seq[i], p>>]

IsPrefix(a, b) == Len(a) <= Len(b) /\ \A i \in 1..Len(a) : a[i] = b[i]

NoDuplicates(seq) == \A i, j \in 1..Len(seq) : seq[i] = seq[j] => i = j

\* C17: when an observer's update raises during notify, the observers attached
\* after it still get the payload and notify does not raise to its caller.
C17_RaisingObserverIsolated ==
  Notified =>
     /\ \A i \in 1..Len(subj.snapshot) :
           \E j \in 1..Len(subj.delivered) : subj.delivered[j][1] = subj.snapshot[i]
     /\ ~subj.propagated

\* C18: the observer list never holds an observer twice; attach of a member and
\* detach of a non-member leave the list as it was.
C18_SubscribersDistinct ==
  /\ NoDuplicates(subj.observers)
  /\ (subj.op = "attach" /\ Member(subj.arg, subj.snapshot)) =>
        subj.observers = subj.snapshot
  /\ (subj.op = "detach" /\ ~Member(subj.arg, subj.snapshot)) =>
        subj.observers = subj.snapshot

C18_Witness ==
  /\ subj.op = "attach" /\ Member(subj.arg, subj.snapshot)
  /\ Len(subj.observers) = 2 /\ subj.observers[1] = subj.arg

C21_EmptyLoadRaisesUnchanged ==
  (AtRest /\ res.op = "load_questions") =>
    /\ res.kind = "raised" =>
         /\ questions = res.questions0
         /\ current_question_index = res.index0
         /\ ~res.published
    /\ res.kind = "ok" => (questions # << >> /\ res.published)
    /\ questions = << >> => res.kind = "raised"

C21_Witness ==
  /\ AtRest /\ res.op = "load_questions" /\ res.kind = "raised"
  /\ res.questions0 = <<Q1, Q2>> /\ res.index0 > 0
  /\ questions = <<Q1, Q2>> /\ current_question_index = res.index0

\* ------------------------------------------------------------------- C22
\* C22: after any sequence of the session's operations the current index is
\* within 0..len(questions), and an operation on an active session other than
\* a new start leaves the index no smaller than it found it.
C22_IndexInRangeMonotone ==
  /\ AtRest => current_question_index \in 0..Len(questions)
  /\ (AtRest /\ res.active0
        /\ res.op \in {"load_questions", "submit_answer", "get_quiz_progress"})
       => current_question_index >= res.index0

\* ------------------------------------------------------------------- C23
\* C23: while a session is active load_questions neither replaces the loaded
\* questions nor resets the current index.
C23_NoReloadWhileActive ==
  (AtRest /\ res.op = "load_questions" /\ res.active0) =>
    /\ questions = res.questions0
    /\ current_question_index = res.index0

\* ------------------------------------------------------------------- C24
\* C24: at most one live Timer has the session attached: every running Timer
\* the session is subscribed to is the session's current Timer, and a
\* countdown thread that has gone past end_quiz's check of quiz_active, about
\* to end the attempt, belongs to the session's current Timer.
C24_OneLiveTimerPerSession ==
  /\ \A t \in DOMAIN timers :
       (timers[t].exists /\ timers[t].attached /\ timers[t].is_running) => t = timer
  /\ \A k \in Threads : pc[k] = "eq_set" => loc[k].timer = timer

\* ------------------------------------------------------------------- C25
\* C25: end_quiz on a session that was never started raises to its caller and
\* changes nothing: no completion is recorded and no quiz_complete
\* notification is published.
C25_EndNeverStartedRaises ==
  (AtRest /\ res.op = "end_quiz" /\ ~hist.started) =>
    /\ res.kind = "raised"
    /\ ~res.completed
    /\ hist.completions = 0 /\ hist.notified = 0
    /\ ~quiz_active

\* ------------------------------------------------------------------- C26
\* C26: in the lock-guarded manager every submit_answer call on an active
\* session returns a result record to its caller: the caller, holding the
\* manager's lock inside submit_answer, eventually has the scored result.
C26_SubmitAnswerReturns ==
  (mgr.pc = "submit_answer" /\ mgr.quiz_active)
    ~> (mgr.pc = "idle" /\ mgr.res.op = "submit_answer" /\ mgr.res.kind = "scored")

\* ------------------------------------------------------------------- C27
\* C27: for every Question construction accepts, of any kind, check_answer of
\* the Question's own correct answer is true.
C27_CorrectAnswerAccepted ==
  (qn.state = "built" /\ qn.op = "check_answer" /\ qn.answer = GetCorrectAnswer(qn))
    => qn.result

C27_Witness ==
  /\ qn.state = "built" /\ qn.op = "check_answer"
  /\ qn.question_type = "short_answer"
  /\ qn.correct_answer = Str(<<" ", "A">>)
  /\ qn.answer = GetCorrectAnswer(qn)
  /\ qn.result

\* ------------------------------------------------------------------- C28
\* two characters that are the same letter in either case
SameLetter(c, d) == c = d \/ {c, d} = {"a", "A"}
\* y is x in another letter-casing
CaseVariant(x, y) == Len(x) = Len(y) /\ \A i \in 1..Len(x) : SameLetter(x[i], y[i])
Spaces(n) == [i \in 1..n |-> " "]
\* y is x with whitespace added in front of it and behind it
Padded(x, y) == \E i \in 0..MaxLen, j \in 0..MaxLen : y = Spaces(i) \o x \o Spaces(j)
\* y differs from x only in leading or trailing whitespace, or only in casing
Variant(x, y) == CaseVariant(x, y) \/ Padded(x, y) \/ Padded(y, x)

DistinctOptions(list) ==
  \A i \in 1..Len(list), j \in 1..Len(list) : i # j => list[i] # list[j]

\* C29: every Question construction accepts has a non-blank prompt,
\* non-negative points and a recognised kind, and as a single-choice Question
\* at least 2 distinct options that contain the correct answer; arguments that
\* break one of these make construction raise.
C29_AcceptedQuestionIsValid ==
  qn.state = "built" =>
    /\ \E i \in 1..Len(qn.text) : qn.text[i] # " "
    /\ qn.points >= 0
    /\ qn.question_type \in {"mcq", "true_false", "short_answer"}
    /\ qn.question_type = "mcq" =>
         /\ Len(qn.options) >= 2
         /\ DistinctOptions(qn.options)
         /\ InList(qn.correct_answer, qn.options)

\* ------------------------------------------------------------------- C30
\* C30: under every interleaving of stop() or pause() with the countdown
\* thread, the Timer is not marked expired, and its countdown thread has not
\* published time_expired = True, while a whole second or more is left before
\* the Timer's deadline (get_remaining_time counts whole seconds, so within the
\* last second before the deadline the remaining time it computes is 0).
C30_NoExpiryBeforeDeadline ==
  /\ Tm.is_expired => now > Tm.end_time - TicksPerSec
  /\ \A k \in Threads :
       (pc[k] = "t_exp" /\ loc[k].remaining = 0 /\ Tm.thread = k)
         => now > Tm.end_time - TicksPerSec

\* ------------------------------------------------------------------- C31
\* the foreground flow is inside submit_answer, past its active and expiry checks
PastSubmitChecks ==
  pc[FG] = "sa_score" \/ (pc[FG] = "nq_inc" /\ loc[FG].nret = "sa_notify")

\* C31: once the session is inactive, a submit_answer that had passed its
\* active and expiry checks neither adds points nor advances the index: no step
\* of it taken on an inactive session changes the score or the current index.
C31_InactiveSessionFrozen ==
  [][(~quiz_active /\ PastSubmitChecks) =>
       /\ user'.current_score = user.current_score
       /\ current_question_index' = current_question_index]_vars

\* ------------------------------------------------------------------- C32
\* C32: whenever a started session has gone from active to inactive, by any
\* path, a quiz_complete notification is published and the participant's
\* completion is recorded for that attempt.
C32_EndedSessionIsCompleted ==
  (hist.started /\ ~quiz_active) ~> (hist.completions > 0 /\ hist.notified > 0)

\* ------------------------------------------------------------------- C33
\* C33: whenever a started Timer of positive duration has become expired,
\* whoever detected it, the Timer's countdown thread eventually publishes a
\* notification with time_expired = True (unless a reset or a new start
\* discards the expiry).
C33_ExpiryIsPublished ==
  (Tm.is_expired /\ Tm.thread # 0 /\ Tm.duration > 0)
    ~> (~Tm.is_expired \/ (Tm.thread # 0 /\ loc[Tm.thread].nexp > 0))

\* ------------------------------------------------------------------- C34
\* C34: a submit_answer call that scored an answer publishes answer_submitted
\* before the question_change or quiz_complete notification it causes, and it
\* publishes question_change exactly when the new index is in range, with
\* question_number = new index + 1.
C34_AnswerSubmittedFirst ==
  (AtRest /\ res.op = "submit_answer" /\ res.kind = "scored") =>
    /\ res.notes[1] = "answer_submitted"
    /\ InList("question_change", res.notes) <=> current_question_index < Len(questions)
    /\ InList("question_change", res.notes) => res.qnum = current_question_index + 1

EndedByThread ==
  \/ hist.completions > 0
  \/ \E k \in Threads : pc[k] \in {"st_check", "st_join", "eq_complete", "eq_notify"}

\* everything C36 says of a successful start_quiz but the Timer's duration
StartedFresh ==
  (AtRest /\ res.op = "start_quiz" /\ res.kind = "ok") =>
    /\ current_question_index = 0
    /\ user.current_score = 0
    /\ timer = res.timers0 + 1
    /\ nTimers = timer
    /\ timers[timer].start_time # NoTime
    /\ timers[timer].thread # 0
    /\ timers[timer].attached
    /\ quiz_active \/ EndedByThread

\* C36: when start_quiz has succeeded, the index and the score are 0, the
\* session has a Timer constructed and started by this call to which it is
\* subscribed, the session is active unless a countdown thread has ended it
\* since, and the Timer's duration is the duration argument if one was given
\* and the duration configured before the call otherwise.
C36_StartQuizStartsFresh ==
  /\ StartedFresh
  /\ (AtRest /\ res.op = "start_quiz" /\ res.kind = "ok") =>
       timers[timer].duration =
         IF res.given # NoDuration THEN res.given ELSE res.configured0

\* ------------------------------------------------------------------- C37
\* a start() that directly follows a reset() takes effect and sets the deadline
\* the whole duration reset left after the start instant
ResetThenStartCountsFull ==
  [][(AtRest /\ res.op = "reset" /\ res'.op = "start") =>
       /\ res'.kind = "started"
       /\ Tm'.is_running
       /\ ~Tm'.is_expired
       /\ Tm'.start_time = now
       /\ Tm'.end_time = now + res.value * TicksPerSec]_vars

\* C37: once reset() has returned on a Timer whose duration was and is
\* positive, and until the next call, the Timer is not running and not
\* expired, has no start instant and no deadline, and its remaining_time equals
\* its duration, which is the new duration if reset was given one and the old
\* one otherwise.
C37_ResetClearsTimer ==
  (AtRest /\ res.op = "reset" /\ res.duration0 > 0 /\ res.value > 0) =>
    /\ ~Tm.is_running
    /\ ~Tm.is_expired
    /\ Tm.start_time = NoTime
    /\ Tm.end_time = NoTime
    /\ Tm.duration = res.value
    /\ Tm.remaining_time = Tm.duration

\* ------------------------------------------------------------------- C38
\* object.__new__ runs at most once for each singleton class
OneInstance == \A c \in SingletonClasses : sgl.created[c] <= 1

\* C38: once a caller has stored a value in the instance of a singleton class,
\* no step of any constructor call, concurrent or later, takes it away.
C38_InitialisedOnce ==
  [][\A c \in SingletonClasses :
       sgl.stored[c] > 0 => sgl'.stored[c] >= sgl.stored[c]]_vars

\* ------------------------------------------------------------------- C39
\* update calls of the last notify that went to observer o
Deliveries(o) ==
  Cardinality({i \in 1..Len(subj.delivered) : subj.delivered[i][1] = o})

\* C39: when a notify whose update calls did not raise has returned, every
\* observer that was attached when it began and was not detached while it ran
\* has received the payload exactly once, whatever was attached or detached
\* in the meantime.
C39_NotifyReachesEveryObserver ==
  (subj.op = "notify" /\ subj.mode = "idle" /\ ~subj.raised) =>
    \A o \in Observers :
      (Member(o, subj.snapshot) /\ o \notin subj.removed) => Deliveries(o) = 1

====
